---- MODULE Spec2Model ----
(***************************************************************************)
(* MineStat (Python, minestat/__init__.py): the multi-protocol Server List *)
(* Ping query.  MineStat.__init__ is the orchestrator; it calls up to five *)
(* codecs (bedrock_raknet_query, legacy_query, beta_query,                 *)
(* extended_legacy_query, json_query), each of which opens one socket,     *)
(* talks to the server and fills the members of the object.                *)
(*                                                                         *)
(* Text is a sequence of one-character strings; "SECT" stands for the      *)
(* section sign, "NUL" for U+0000, "NL" for a newline and "SURR" for an    *)
(* unpaired UTF-16 surrogate.  An optional member is <<>> (None) or <<v>>. *)
(***************************************************************************)
EXTENDS Integers, Sequences, FiniteSets, TLC

VARIABLES
  query_protocol,  \* argument query_protocol of MineStat.__init__
  port_arg,        \* argument port of MineStat.__init__
  autoport,        \* local autoport of MineStat.__init__
  result,          \* local result of MineStat.__init__
  pc,              \* position of MineStat.__init__
  self,            \* the members of the MineStat object
  cur,             \* the codec that is running, or "None"
  cpc,             \* position inside the running codec
  ret,             \* value returned by the codec that ran last
  content_len,     \* local content_len of the running codec
  attempts,        \* the codecs called so far, in call order
  rets,            \* per call: "RUNNING", "RAISED" or the ConnStatus returned
  socks,           \* per call: state of the socket the call created
  writer,          \* per member: the codec that assigned it last, or "None"
  exc,             \* the exception that left MineStat.__init__, or "None"
  payload,         \* what the running codec read as its payload, or None
  event,           \* the failure the running codec met: <<stage, failure>>
  conn_ports,      \* per call: the port handed to sock.connect
  varints,         \* the values _unpack_varint gave the running json_query
  fn,              \* the function applied on its own, or "None"
  arg,             \* its argument
  out              \* what it gave back, or None while it has not run

vars == <<query_protocol, port_arg, autoport, result, pc, self, cur, cpc, ret,
          content_len, attempts, rets, socks, writer, exc, payload, event,
          conn_ports, varints, fn, arg, out>>

----------------------------------------------------------------------------
(* Enumerations and class constants *)

ConnStatus == {"SUCCESS", "CONNFAIL", "TIMEOUT", "UNKNOWN"}

Codecs == {"BETA", "LEGACY", "EXTENDED_LEGACY", "JSON", "BEDROCK_RAKNET"}

SlpProtocols == Codecs \cup {"ALL"}

DEFAULT_TCP_PORT == 25565

DEFAULT_BEDROCK_PORT == 19132

\* Ports a caller passes: 0 (automatic) or an explicit one.
Ports == {0, 25570}

\* Largest connect time, in ms, the model lets a connect take.
MaxLatency == 1

NoneV == <<>>

Some(v) == <<v>>

\* Members that carry server data.
DataFields == {"version", "motd", "stripped_motd", "current_players",
               "max_players", "favicon_b64", "favicon", "gamemode"}

----------------------------------------------------------------------------
(* Text helpers *)

Digits == {"0", "1", "2", "3", "4", "5", "6", "7", "8", "9"}

DigitVal(c) ==
  CASE c = "0" -> 0 [] c = "1" -> 1 [] c = "2" -> 2 [] c = "3" -> 3
    [] c = "4" -> 4 [] c = "5" -> 5 [] c = "6" -> 6 [] c = "7" -> 7
    [] c = "8" -> 8 [] c = "9" -> 9

\* int(s) succeeds.  Over the model's alphabet (no sign, blank or
\* underscore) that is: s is a non-empty run of digits.
IsInt(s) == Len(s) > 0 /\ \A i \in 1..Len(s) : s[i] \in Digits

RECURSIVE IntOf(_)
IntOf(s) ==
  IF Len(s) = 0 THEN 0
  ELSE 10 * IntOf(SubSeq(s, 1, Len(s) - 1)) + DigitVal(s[Len(s)])

\* str.split(sep) for a one-character sep: always at least one field.
RECURSIVE Split(_, _)
Split(s, sep) ==
  IF \A i \in 1..Len(s) : s[i] # sep THEN <<s>>
  ELSE LET k == CHOOSE i \in 1..Len(s) :
                  s[i] = sep /\ \A j \in 1..(i - 1) : s[j] # sep
       IN <<SubSeq(s, 1, k - 1)>> \o Split(SubSeq(s, k + 1, Len(s)), sep)

\* sep.join(fields)
RECURSIVE Join(_, _)
Join(fields, sep) ==
  IF Len(fields) = 0 THEN <<>>
  ELSE IF Len(fields) = 1 THEN fields[1]
  ELSE fields[1] \o <<sep>> \o Join(Tail(fields), sep)

\* bytes.decode('utf-16-be') / decode('utf8') raises UnicodeDecodeError.
Undecodable(s) == \E i \in 1..Len(s) : s[i] = "SURR"

\* re.sub(r"SECT.", "", s): "." matches any character but a newline.
RECURSIVE StripStr(_)
StripStr(s) ==
  IF Len(s) = 0 THEN <<>>
  ELSE IF s[1] = "SECT" /\ Len(s) >= 2 /\ s[2] # "NL"
       THEN StripStr(SubSeq(s, 3, Len(s)))
       ELSE <<s[1]>> \o StripStr(Tail(s))

\* str(n) for n >= 0.
DigitChar(d) == CHOOSE c \in Digits : DigitVal(c) = d

RECURSIVE StrOf(_)
StrOf(n) ==
  IF n < 10 THEN <<DigitChar(n)>> ELSE StrOf(n \div 10) \o <<DigitChar(n % 10)>>

\* The texts of at most n characters over alphabet A.
Texts(A, n) == UNION { [1..k -> A] : k \in 0..n }

----------------------------------------------------------------------------
(* Varints, byte by byte *)

\* A varint whose first byte never carries the continuation bit.
pack_varint_OneByte(data) == <<data % 128>>

\* _pack_varint: seven bits a byte, low bits first, 0x80 set on every byte
\* but the last.
RECURSIVE pack_varint(_)
pack_varint(data) ==
  LET byte == data % 128
      rest == data \div 128
  IN IF rest = 0 THEN <<byte>> ELSE <<byte + 128>> \o pack_varint(rest)

\* 1 << (7 * i)
Shift7(i) == IF i = 0 THEN 1 ELSE IF i = 1 THEN 128 ELSE IF i = 2 THEN 16384
             ELSE IF i = 3 THEN 2097152 ELSE 268435456

\* A Python int has no width.  The value _unpack_varint gathers is kept as
\* its low 28 bits (rounds 0 to 3) and the bits above them (round 4).
Wide(lo, hi) == [lo |-> lo, hi |-> hi]

WideOf(v) == Wide(v % 268435456, v \div 268435456)

\* data |= (byte & 0x7F) << 7 * i
OrShifted(data, byte, i) ==
  IF i < 4 THEN Wide(data.lo + (byte % 128) * Shift7(i), data.hi)
  ELSE Wide(data.lo, data.hi + (byte % 128))

\* The loop of _unpack_varint from round i on, over the bytes sock.recv(1)
\* will hand out: at most five rounds, ended by an empty read or by a byte
\* without 0x80.  Yields the value and the bytes left unread.
RECURSIVE UnpackFrom(_, _, _)
UnpackFrom(stream, i, data) ==
  IF i = 5 \/ Len(stream) = 0 THEN [data |-> data, rest |-> stream]
  ELSE LET byte == stream[1]
           d == OrShifted(data, byte, i)
       IN IF byte < 128 THEN [data |-> d, rest |-> Tail(stream)]
          ELSE UnpackFrom(Tail(stream), i + 1, d)

\* _unpack_varint
unpack_varint(stream) == UnpackFrom(stream, 0, Wide(0, 0))

----------------------------------------------------------------------------
(* _recv_exact, read by read *)

\* What one sock.recv does: hands out some of the n bytes that are ready,
\* returns b'' because the peer has closed, or raises socket.timeout.
Ready(n) == [kind |-> "data", n |-> n]

PeerClosed == [kind |-> "closed", n |-> 0]

TimedOut == [kind |-> "timeout", n |-> 0]

\* Every read asks for the whole size.
Request_Whole(size, data) == size

\* size - len(data), the argument of sock.recv
Request(size, data) == size - Len(data)

\* The while loop of _recv_exact.  The peer's bytes are numbered in the
\* order sent; reads says what each sock.recv does and a peer that has
\* nothing more to say closes.  log keeps, for each sock.recv, what was
\* asked, what was held and what happened.
RECURSIVE RecvLoop(_, _, _, _)
RecvLoop(size, data, reads, log) ==
  IF ~(Len(data) < size) THEN [kind |-> "ret", val |-> "data", data |-> data, log |-> log]
  ELSE LET asked == Request(size, data)
           r == IF Len(reads) = 0 THEN PeerClosed ELSE reads[1]
           got == IF r.n < asked THEN r.n ELSE asked
           temp_data == [j \in 1..got |-> Len(data) + j]
           log1 == Append(log, [asked |-> asked, had |-> Len(data), read |-> r])
       IN IF r.kind = "timeout"
          THEN [kind |-> "raise", val |-> "socket.timeout", data |-> data, log |-> log1]
          ELSE IF r.kind = "closed" \/ got <= 0
          THEN [kind |-> "raise", val |-> "ConnectionAbortedError", data |-> data,
                log |-> log1]
          ELSE RecvLoop(size, data \o temp_data, Tail(reads), log1)

\* _recv_exact(sock, size)
recv_exact(reads, size) == RecvLoop(size, <<>>, reads, <<>>)

----------------------------------------------------------------------------
(* What a server may send *)

\* NUL-separated field lists a server answers a legacy or extended legacy
\* ping with: six fields, five, seven, and six with a non-numeric count.
LegacyFieldLists ==
  { << <<"SECT", "1">>, <<"4">>, <<"v">>, <<"SECT", "a", "m">>, <<"3">>, <<"2", "0">> >>,
    << <<"SECT", "1">>, <<"4">>, <<"v">>, <<"m">>, <<"3">> >>,
    << <<"SECT", "1">>, <<"4">>, <<"v">>, <<"m">>, <<"3">>, <<"9">>, <<"x">> >>,
    << <<"SECT", "1">>, <<"4">>, <<"v">>, <<"m">>, <<"x">>, <<"9">> >>,
    << <<"SECT", "1">>, <<"4">>, <<"v">>, <<"m">>, <<"3">>, <<>> >> }

LegacyPayloads ==
  { Join(fs, "NUL") : fs \in LegacyFieldLists } \cup { <<"h", "i">>, <<"SURR", "a", "b">> }

\* SECT-separated field lists a server answers a beta ping with.
BetaFieldLists ==
  { << <<"m">>, <<"3">>, <<"2", "0">> >>,
    << <<"m">>, <<"a", "b">>, <<"3">>, <<"9">> >>,
    << <<"m">>, <<"x">>, <<"9">> >>,
    << <<"m">>, <<"3">>, <<"x">> >>,
    << <<"m">>, <<"3">> >> }

BetaPayloads ==
  { Join(fs, "SECT") : fs \in BetaFieldLists } \cup { <<"h", "i">>, <<"SURR">> }

\* Values a response header's signed length field may carry.
HeaderLens(P) == {-1, 0} \cup { Len(p) : p \in P }

\* The payloads _recv_exact can hand back for a length field of n units.
ReadPayloads(P, n) == IF n <= 0 THEN {<<>>} ELSE { p \in P : Len(p) = n }

\* ';'-separated server id strings of an Unconnected Pong.
BedrockFieldLists ==
  { << <<"M">>, <<"SECT", "b", "m">>, <<"5">>, <<"1">>, <<"3">>, <<"2", "0">>,
       <<"u">>, <<"w">>, <<"S">>, <<"1">>, <<"7">>, <<"8">> >>,
    << <<"M">>, <<"m">>, <<"5">>, <<"1">> >>,
    << <<"M">>, <<"m">>, <<"5">>, <<"1">>, <<"3">>, <<"9">>, <<"u">> >>,
    << <<"M">>, <<"m">>, <<"5">>, <<"1">>, <<"3">>, <<"9">>, <<"u">>, <<"w">> >>,
    << <<"M">>, <<"m">>, <<"5">>, <<"1">>, <<"x">>, <<"9">>, <<"u">>, <<"w">>, <<"S">> >>,
    << <<"M">>, <<"m">>, <<"5">>, <<"1">>, <<"3">>, <<"x">>, <<"u">>, <<"w">>, <<"S">> >> }

\* A datagram recvfrom returns: its first byte, how many bytes follow it
\* before the id string, whether the 16 magic bytes match, the id string.
BedrockDatagrams ==
  { [packet_id |-> 28, body |-> 34, magic_ok |-> TRUE, id_string |-> Join(fs, ";")]
      : fs \in BedrockFieldLists }
  \cup
  { [packet_id |-> 0,  body |-> 34, magic_ok |-> TRUE,  id_string |-> <<>>],
    [packet_id |-> 28, body |-> 2,  magic_ok |-> FALSE, id_string |-> <<>>],
    [packet_id |-> 28, body |-> 32, magic_ok |-> FALSE, id_string |-> <<>>],
    [packet_id |-> 28, body |-> 32, magic_ok |-> TRUE,  id_string |-> <<>>],
    [packet_id |-> 28, body |-> 34, magic_ok |-> TRUE,  id_string |-> <<"SURR">>] }

\* A description of a JSON status: a string, or a chat component.
DescStr(s) == [t |-> "str", has_text |-> FALSE, text |-> s, extra |-> <<>>]

DescDict(has, s, ex) == [t |-> "dict", has_text |-> has, text |-> s, extra |-> ex]

\* The content of a JSON status response: how json.loads sees it, and the
\* keys of the object it yields (<<>> for a key that is absent).
JsonDoc(k, ver, desc, mx, on, fav) ==
  [kind |-> k, version_name |-> ver, description |-> desc,
   players_max |-> mx, players_online |-> on, favicon |-> fav, len |-> 9]

JsonDocs ==
  { JsonDoc("obj", Some(<<"v">>), Some(DescStr(<<"SECT", "a", "m">>)), Some(20), Some(3), NoneV),
    JsonDoc("obj", Some(<<"v">>),
            Some(DescDict(TRUE, <<"A">>, <<DescDict(TRUE, <<"B">>, <<>>)>>)),
            Some(20), Some(3), Some(<<"d", "base64,", "Q">>)),
    JsonDoc("obj", Some(<<"v">>), Some(DescStr(<<"m">>)), Some(20), Some(3), Some(<<"d">>)),
    JsonDoc("obj", Some(<<"v">>), NoneV, Some(20), Some(3), NoneV),
    JsonDoc("obj", Some(<<"v">>), Some(DescStr(<<"m">>)), Some(20), NoneV, NoneV),
    JsonDoc("obj", NoneV, Some(DescStr(<<"m">>)), Some(20), Some(3), NoneV),
    JsonDoc("list", NoneV, NoneV, NoneV, NoneV, NoneV),
    JsonDoc("bad_json", NoneV, NoneV, NoneV, NoneV, NoneV),
    JsonDoc("bad_utf8", NoneV, NoneV, NoneV, NoneV, NoneV) }

\* Values the varints of a JSON response may carry.
JsonPacketLens == {0, 12}

JsonPacketIds == {0, 25}

JsonContentLens == {0} \cup { d.len : d \in JsonDocs }

----------------------------------------------------------------------------
(* Parsers.  Each yields the members and the writers after it ran, and how *)
(* it ended: kind "ret" with the ConnStatus returned, or kind "raise" with *)
(* the exception it let escape.                                            *)

Out(s, w, kind, val) == [s |-> s, w |-> w, kind |-> kind, val |-> val]

\* Members F assigned by codec c.
Wrote(w, F, c) == [f \in DOMAIN w |-> IF f \in F THEN c ELSE w[f]]

\* int() of a non-numeric field answered with a return of UNKNOWN.
IntFails_Returns(s, w) == Out(s, w, "ret", "UNKNOWN")

\* int(field) stands outside any try: a non-numeric field lets ValueError
\* escape with the members assigned so far.
IntFails(s, w) == Out(s, w, "raise", "ValueError")

\* motd_strip_formatting(raw_motd) for a str or a dict (anything else: "").
RECURSIVE motd_strip_formatting(_)
RECURSIVE StripExtra(_)
StripExtra(ex) ==
  IF Len(ex) = 0 THEN <<>>
  ELSE motd_strip_formatting(ex[1]) \o StripExtra(Tail(ex))

motd_strip_formatting(raw_motd) ==
  IF raw_motd.t = "str" THEN StripStr(raw_motd.text)
  ELSE IF raw_motd.t = "dict"
       THEN (IF raw_motd.has_text THEN raw_motd.text ELSE <<>>)
              \o StripExtra(raw_motd.extra)
       ELSE <<>>

\* json.dumps(description), as a sequence of tokens.
RECURSIVE JsonDumps(_)
RECURSIVE DumpsList(_)
DumpsList(ex) ==
  IF Len(ex) = 0 THEN <<>>
  ELSE JsonDumps(ex[1]) \o (IF Len(ex) > 1 THEN <<",">> ELSE <<>>) \o DumpsList(Tail(ex))

JsonDumps(d) ==
  IF d.t = "str" THEN <<"\"">> \o d.text \o <<"\"">>
  ELSE <<"{">>
       \o (IF d.has_text THEN <<"text:", "\"">> \o d.text \o <<"\"">> ELSE <<>>)
       \o (IF Len(d.extra) > 0 THEN <<"extra:", "[">> \o DumpsList(d.extra) \o <<"]">> ELSE <<>>)
       \o <<"}">>

\* The field count taken as a lower bound.
LegacyCountOk_AtLeast(n) == n >= 6

\* if len(payload_list) != 6: return ConnStatus.UNKNOWN
LegacyCountOk(n) == n = 6

\* __parse_legacy_payload, called by codec c (LEGACY or EXTENDED_LEGACY).
ParseLegacyPayload(s, w, c, payload_raw) ==
  IF Undecodable(payload_raw) THEN Out(s, w, "raise", "UnicodeDecodeError")
  ELSE
    LET payload_list == Split(payload_raw, "NUL") IN
    IF ~LegacyCountOk(Len(payload_list)) THEN Out(s, w, "ret", "UNKNOWN")
    ELSE
      LET s1 == [s EXCEPT !.version = Some(payload_list[3]),
                          !.motd = Some(payload_list[4]),
                          !.stripped_motd =
                             Some(motd_strip_formatting(DescStr(payload_list[4])))]
          w1 == Wrote(w, {"version", "motd", "stripped_motd"}, c)
          s2 == [s1 EXCEPT !.current_players = Some(IntOf(payload_list[5]))]
          w2 == Wrote(w1, {"current_players"}, c)
          s3 == [s2 EXCEPT !.max_players = Some(IntOf(payload_list[6])),
                           !.online = TRUE]
          w3 == Wrote(w2, {"max_players", "online"}, c)
      IN IF ~IsInt(payload_list[5]) THEN IntFails(s1, w1)
         ELSE IF ~IsInt(payload_list[6]) THEN IntFails(s2, w2)
         ELSE Out(s3, w3, "ret", "SUCCESS")

\* The parsing half of beta_query.
ParseBetaPayload(s, w, payload_raw) ==
  IF Undecodable(payload_raw) THEN Out(s, w, "raise", "UnicodeDecodeError")
  ELSE
    LET payload_list == Split(payload_raw, "SECT")
        n == Len(payload_list)
    IN
    IF n < 3 THEN Out(s, w, "ret", "UNKNOWN")
    ELSE
      LET s1 == [s EXCEPT !.max_players = Some(IntOf(payload_list[n]))]
          w1 == Wrote(w, {"max_players"}, "BETA")
          motd == Join(SubSeq(payload_list, 1, n - 2), "SECT")
          s2 == [s1 EXCEPT !.current_players = Some(IntOf(payload_list[n - 1])),
                           !.motd = Some(motd),
                           !.stripped_motd = Some(motd_strip_formatting(DescStr(motd))),
                           !.version = Some(<<">=1.8b/1.3">>),
                           !.online = TRUE]
          w2 == Wrote(w1, {"current_players", "motd", "stripped_motd",
                           "version", "online"}, "BETA")
      IN IF ~IsInt(payload_list[n]) THEN IntFails(s, w)
         ELSE IF ~IsInt(payload_list[n - 1]) THEN IntFails(s1, w1)
         ELSE Out(s2, w2, "ret", "SUCCESS")

\* __parse_bedrock_payload: the fields are zipped with the twelve names of
\* motd_index, so payload[name] raises KeyError past the last field.
ParseBedrockPayload(s, w, payload_str) ==
  LET f == Split(payload_str, ";")
      n == Len(f)
      c == "BEDROCK_RAKNET"
      s0 == [s EXCEPT !.online = TRUE]
      w0 == Wrote(w, {"online"}, c)
      s1 == [s0 EXCEPT !.current_players = Some(IntOf(f[5]))]
      w1 == Wrote(w0, {"current_players"}, c)
      s2 == [s1 EXCEPT !.max_players = Some(IntOf(f[6]))]
      w2 == Wrote(w1, {"max_players"}, c)
      s3 == [s2 EXCEPT !.version = Some(f[4] \o <<" ">> \o f[8] \o <<"(">> \o f[1] \o <<")">>),
                       !.motd = Some(f[2]),
                       !.stripped_motd = Some(motd_strip_formatting(DescStr(f[2])))]
      w3 == Wrote(w2, {"version", "motd", "stripped_motd"}, c)
      s4 == [s3 EXCEPT !.gamemode = Some(f[9])]
      w4 == Wrote(w3, {"gamemode"}, c)
  IN IF n < 5 THEN Out(s0, w0, "raise", "KeyError")
     ELSE IF ~IsInt(f[5]) THEN IntFails(s0, w0)
     ELSE IF n < 6 THEN Out(s1, w1, "raise", "KeyError")
     ELSE IF ~IsInt(f[6]) THEN IntFails(s1, w1)
     ELSE IF n < 8 THEN Out(s2, w2, "raise", "KeyError")
     ELSE IF n < 9 THEN Out(s3, w3, "raise", "KeyError")
     ELSE Out(s4, w4, "ret", "SUCCESS")

\* __parse_json_payload.  Only json.JSONDecodeError is caught around the
\* decoding; only KeyError around the favicon.
ParseJsonPayload(s, w, doc) ==
  LET c == "JSON"
      s1 == [s EXCEPT !.version = doc.version_name]
      w1 == Wrote(w, {"version"}, c)
      desc == doc.description[1]
      s2 == [s1 EXCEPT !.motd = IF desc.t = "str" THEN Some(desc.text)
                                ELSE Some(JsonDumps(desc)),
                       !.stripped_motd = Some(motd_strip_formatting(desc))]
      w2 == Wrote(w1, {"motd", "stripped_motd"}, c)
      s3 == [s2 EXCEPT !.max_players = doc.players_max]
      w3 == Wrote(w2, {"max_players"}, c)
      s4 == [s3 EXCEPT !.current_players = doc.players_online]
      w4 == Wrote(w3, {"current_players"}, c)
      fav == doc.favicon[1]
      parts == Split(fav, "base64,")
      \* favicon absent: the KeyError handler resets both members
      s5a == [s4 EXCEPT !.favicon_b64 = NoneV, !.favicon = NoneV]
      w5a == Wrote(w4, {"favicon_b64", "favicon"}, c)
      \* favicon present
      s5b == [s4 EXCEPT !.favicon_b64 = Some(fav)]
      w5b == Wrote(w4, {"favicon_b64"}, c)
      s5c == [s5b EXCEPT !.favicon = Some(<<"b64decode">> \o parts[2])]
      w5c == Wrote(w5b, {"favicon"}, c)
      done(sx, wx) == Out([sx EXCEPT !.online = TRUE], Wrote(wx, {"online"}, c),
                          "ret", "SUCCESS")
  IN IF doc.kind = "bad_utf8" THEN Out(s, w, "raise", "UnicodeDecodeError")
     ELSE IF doc.kind = "bad_json" THEN Out(s, w, "ret", "UNKNOWN")
     ELSE IF doc.kind # "obj" THEN Out(s, w, "raise", "TypeError")
     ELSE IF doc.version_name = NoneV THEN Out(s, w, "raise", "KeyError")
     ELSE IF doc.description = NoneV THEN Out(s1, w1, "raise", "KeyError")
     ELSE IF doc.players_max = NoneV THEN Out(s2, w2, "raise", "KeyError")
     ELSE IF doc.players_online = NoneV THEN Out(s3, w3, "raise", "KeyError")
     ELSE IF doc.favicon = NoneV THEN done(s5a, w5a)
     ELSE IF Len(fav) = 0 THEN done(s5b, w5b)
     ELSE IF Len(parts) < 2 THEN Out(s5b, w5b, "raise", "IndexError")
     ELSE done(s5c, w5c)

----------------------------------------------------------------------------
(* The object before MineStat.__init__ has assigned anything *)

\* No failure met.
NoEvent == <<>>

\* The arguments of MineStat.__init__, and a function applied on its own.
io == <<query_protocol, port_arg, fn, arg, out>>

NoWriter == [f \in DataFields \cup {"online", "latency", "slp_protocol"} |-> "None"]

\* Nothing has run yet.
Fresh ==
  /\ autoport = FALSE
  /\ result = "None"
  /\ pc = "init"
  /\ self = [port |-> 0, online |-> FALSE, version |-> NoneV, motd |-> NoneV,
             stripped_motd |-> NoneV, current_players |-> NoneV,
             max_players |-> NoneV, latency |-> NoneV, slp_protocol |-> "None",
             favicon_b64 |-> NoneV, favicon |-> NoneV, gamemode |-> NoneV,
             connection_status |-> "None"]
  /\ cur = "None"
  /\ cpc = "idle"
  /\ ret = "None"
  /\ content_len = 0
  /\ attempts = <<>>
  /\ rets = <<>>
  /\ socks = <<>>
  /\ writer = NoWriter
  /\ exc = "None"
  /\ payload = NoneV
  /\ event = NoEvent
  /\ conn_ports = <<>>
  /\ varints = <<>>

Init ==
  /\ query_protocol \in SlpProtocols
  /\ port_arg \in Ports
  /\ Fresh
  /\ fn = "None"
  /\ arg = <<>>
  /\ out = NoneV

----------------------------------------------------------------------------
(* Calling a codec, and the ways a codec step ends *)

\* A codec is entered: its first statement creates the socket.
Call(c) ==
  /\ cur' = c
  /\ cpc' = "connect"
  /\ content_len' = 0
  /\ attempts' = Append(attempts, c)
  /\ rets' = Append(rets, "RUNNING")
  /\ socks' = Append(socks, "open")
  /\ payload' = NoneV
  /\ event' = NoEvent
  /\ varints' = <<>>
  /\ UNCHANGED <<ret, writer, exc, conn_ports>>

\* The caller has taken the returned value: the codec's frame is gone.
Leave ==
  /\ cur' = "None" /\ cpc' = "idle"
  /\ payload' = NoneV /\ event' = NoEvent /\ varints' = <<>>
  /\ UNCHANGED conn_ports

\* sock.close()
Closed(close) == IF close THEN [socks EXCEPT ![Len(socks)] = "closed"] ELSE socks

\* A step of the running codec ends with the members s and writers w and
\* either goes on to position val (kind "go"), returns val (kind "ret") or
\* lets exception val escape (kind "raise"); nothing in MineStat.__init__
\* catches, so an escaping exception leaves the constructor too.
ExitCore(kind, val, close, s, w) ==
  /\ self' = s
  /\ writer' = w
  /\ socks' = Closed(close)
  /\ CASE kind = "go" ->
            /\ cpc' = val
            /\ UNCHANGED <<ret, rets, pc, exc>>
       [] kind = "ret" ->
            /\ cpc' = "returned"
            /\ ret' = val
            /\ rets' = [rets EXCEPT ![Len(rets)] = val]
            /\ UNCHANGED <<pc, exc>>
       [] kind = "raise" ->
            /\ cpc' = "raised"
            /\ exc' = val
            /\ pc' = "raised"
            /\ rets' = [rets EXCEPT ![Len(rets)] = "RAISED"]
            /\ UNCHANGED ret
  /\ UNCHANGED <<io, autoport, result, cur, attempts>>

\* A step that ends without a failure and without a payload read.
Exit(kind, val, close, s, w) ==
  /\ ExitCore(kind, val, close, s, w)
  /\ UNCHANGED <<payload, event, conn_ports, varints>>

\* The step that read payload p and handed it to a parser, which ended with o.
Parsed(p, o) ==
  /\ ExitCore(o.kind, o.val, TRUE, o.s, o.w)
  /\ payload' = Some(p)
  /\ UNCHANGED <<event, conn_ports, varints>>

\* A step on which failure f happened at the given stage of the codec.
Failed(stage, f, kind, val, close) ==
  /\ ExitCore(kind, val, close, self, writer)
  /\ event' = <<stage, f>>
  /\ UNCHANGED <<payload, conn_ports, varints>>

\* The peer has closed the connection: every later recv returns b''.
PeerGone == event # NoEvent /\ event[2] = "aborted"

\* How sock.recv / sock.recvfrom can fail: socket.timeout,
\* ConnectionResetError, or another OSError.
SockFailures == {"timeout", "reset", "oserror"}

\* How _recv_exact can fail: as sock.recv does, or with the
\* ConnectionAbortedError it raises when recv returns b'' (peer gone).
ReadFailures == SockFailures \cup {"aborted"}

\* The handlers every codec puts around its reads:
\* except socket.timeout / (ConnectionResetError, ConnectionAbortedError) / OSError.
Classify(failure) ==
  CASE failure = "timeout" -> "TIMEOUT"
    [] failure \in {"aborted", "reset"} -> "UNKNOWN"
    [] failure = "oserror" -> "CONNFAIL"

\* The exception a failed read raises where no handler is around it.
ExcOf(failure) ==
  CASE failure = "timeout" -> "socket.timeout"
    [] failure = "aborted" -> "ConnectionAbortedError"
    [] failure = "reset" -> "ConnectionResetError"
    [] failure = "oserror" -> "OSError"

----------------------------------------------------------------------------
(* Steps common to the five codecs *)

\* How sock.connect can fail: socket.timeout, or an OSError (refused,
\* unreachable, unresolvable).
ConnectFailures == {"timeout", "oserror"}

\* try: sock.connect(...); self.latency = ... except socket.timeout: return
\* TIMEOUT except OSError: return CONNFAIL.  Neither handler closes sock.
Connect ==
  /\ cur # "None" /\ cpc = "connect"
  /\ UNCHANGED content_len
  /\ conn_ports' = Append(conn_ports, self.port)
  /\ UNCHANGED <<payload, varints>>
  /\ \/ \E ms \in 0..MaxLatency :
          /\ ExitCore("go", "send", FALSE, [self EXCEPT !.latency = Some(ms)],
                      Wrote(writer, {"latency"}, cur))
          /\ UNCHANGED event
     \/ \E f \in ConnectFailures :
          /\ ExitCore("ret", Classify(f), FALSE, self, writer)
          /\ event' = <<"connect", f>>

\* sock.send(req_data) stands outside every try block.
Send ==
  /\ cur # "None" /\ cpc = "send"
  /\ UNCHANGED content_len
  /\ \/ Exit("go", "recv", FALSE, self, writer)
     \/ Exit("raise", "OSError", FALSE, self, writer)

----------------------------------------------------------------------------
(* legacy_query and beta_query *)

\* try: raw_header = self._recv_exact(sock, 3), with the three handlers;
\* then content_len = struct.unpack(">xh", raw_header)[0].  No path closes
\* sock here.
RecvHeader(c, P) ==
  /\ cur = c /\ cpc = "recv"
  /\ \/ \E n \in HeaderLens(P) :
          /\ content_len' = n
          /\ Exit("go", "payload", FALSE, self, writer)
     \/ \E f \in ReadFailures :
          /\ UNCHANGED content_len
          /\ Failed("header", f, "ret", Classify(f), FALSE)

\* An exact read that can fail whatever its size.
RecvExactFailures_Always(size) == ReadFailures

\* self._recv_exact(sock, size) loops only while len(data) < size: a size
\* of zero or less reads nothing and cannot fail.
RecvExactFailures(size) == IF size <= 0 THEN {} ELSE ReadFailures

LegacyRecvHeader == RecvHeader("LEGACY", LegacyPayloads)

\* payload_raw = bytearray(self._recv_exact(sock, content_len * 2)) outside
\* any try; sock.close(); self.slp_protocol = LEGACY; parse.
LegacyRecvPayload ==
  /\ cur = "LEGACY" /\ cpc = "payload"
  /\ UNCHANGED content_len
  /\ \/ \E payload_raw \in ReadPayloads(LegacyPayloads, content_len) :
          LET o == ParseLegacyPayload([self EXCEPT !.slp_protocol = "LEGACY"],
                                      Wrote(writer, {"slp_protocol"}, "LEGACY"),
                                      "LEGACY", payload_raw)
          IN Parsed(payload_raw, o)
     \/ \E f \in RecvExactFailures(content_len * 2) :
          Failed("payload", f, "raise", ExcOf(f), FALSE)

BetaRecvHeader == RecvHeader("BETA", BetaPayloads)

BetaRecvPayload ==
  /\ cur = "BETA" /\ cpc = "payload"
  /\ UNCHANGED content_len
  /\ \/ \E payload_raw \in ReadPayloads(BetaPayloads, content_len) :
          LET o == ParseBetaPayload([self EXCEPT !.slp_protocol = "BETA"],
                                    Wrote(writer, {"slp_protocol"}, "BETA"),
                                    payload_raw)
          IN Parsed(payload_raw, o)
     \/ \E f \in RecvExactFailures(content_len * 2) :
          Failed("payload", f, "raise", ExcOf(f), FALSE)

----------------------------------------------------------------------------
(* extended_legacy_query: every read stands in one try whose finally      *)
(* closes sock.                                                            *)

\* packet_id = self._recv_exact(sock, 1); 0xFF is 255.
ExtRecvPacketId ==
  /\ cur = "EXTENDED_LEGACY" /\ cpc = "recv"
  /\ UNCHANGED content_len
  /\ \/ \E packet_id \in {255, 0} :
          IF packet_id # 255 THEN Exit("ret", "UNKNOWN", TRUE, self, writer)
          ELSE Exit("go", "len", FALSE, self, writer)
     \/ \E f \in ReadFailures : Failed("header", f, "ret", Classify(f), TRUE)

\* raw_payload_len = self._recv_exact(sock, 2); content_len < 3: UNKNOWN.
ExtRecvLen ==
  /\ cur = "EXTENDED_LEGACY" /\ cpc = "len"
  /\ \/ \E n \in HeaderLens(LegacyPayloads) :
          /\ content_len' = n
          /\ IF n < 3 THEN Exit("ret", "UNKNOWN", TRUE, self, writer)
             ELSE Exit("go", "payload", FALSE, self, writer)
     \/ \E f \in ReadFailures :
          /\ UNCHANGED content_len
          /\ Failed("header", f, "ret", Classify(f), TRUE)

\* payload_raw = self._recv_exact(sock, content_len * 2); finally close;
\* self.slp_protocol = EXTENDED_LEGACY; parse.
ExtRecvPayload ==
  /\ cur = "EXTENDED_LEGACY" /\ cpc = "payload"
  /\ UNCHANGED content_len
  /\ \/ \E payload_raw \in ReadPayloads(LegacyPayloads, content_len) :
          LET o == ParseLegacyPayload([self EXCEPT !.slp_protocol = "EXTENDED_LEGACY"],
                                      Wrote(writer, {"slp_protocol"}, "EXTENDED_LEGACY"),
                                      "EXTENDED_LEGACY", payload_raw)
          IN Parsed(payload_raw, o)
     \/ \E f \in RecvExactFailures(content_len * 2) :
          Failed("payload", f, "ret", Classify(f), TRUE)

----------------------------------------------------------------------------
(* json_query: every read stands in one try whose finally closes sock.     *)

\* _unpack_varint reads with sock.recv(1): a timeout or an OSError
\* propagates to the handlers of json_query.
VarintFailures == SockFailures

\* An empty read ends _unpack_varint without an exception: it returns the
\* bits gathered so far, which is one of the candidate values when the peer
\* closes inside the varint and 0 once the peer is gone.
VarintCut(values) == IF PeerGone THEN {0} ELSE values

\* _unpack_varint has returned v, with the peer still there (ev is event)
\* or gone (ev is the aborted read); json_query goes on to position next if
\* v is acceptable and returns UNKNOWN through its finally if not.
Unpacked(v, ev, ok, next) ==
  /\ IF ok THEN ExitCore("go", next, FALSE, self, writer)
     ELSE ExitCore("ret", "UNKNOWN", TRUE, self, writer)
  /\ varints' = Append(varints, v)
  /\ event' = ev
  /\ UNCHANGED <<payload, conn_ports>>

\* packet_len = self._unpack_varint(sock); packet_len < 3: UNKNOWN.
JsonRecvPacketLen ==
  /\ cur = "JSON" /\ cpc = "recv"
  /\ UNCHANGED content_len
  /\ \/ \E packet_len \in JsonPacketLens :
          Unpacked(packet_len, event, packet_len >= 3, "packet_id")
     \/ \E packet_len \in VarintCut(JsonPacketLens) :
          Unpacked(packet_len, <<"header", "aborted">>, packet_len >= 3, "packet_id")
     \/ \E f \in VarintFailures : Failed("header", f, "ret", Classify(f), TRUE)

\* packet_id = self._unpack_varint(sock); packet_id != 0: UNKNOWN.
JsonRecvPacketId ==
  /\ cur = "JSON" /\ cpc = "packet_id"
  /\ UNCHANGED content_len
  /\ \/ /\ ~PeerGone
        /\ \E packet_id \in JsonPacketIds :
             Unpacked(packet_id, event, packet_id = 0, "len")
     \/ \E packet_id \in VarintCut(JsonPacketIds) :
          Unpacked(packet_id, <<"header", "aborted">>, packet_id = 0, "len")
     \/ /\ ~PeerGone
        /\ \E f \in VarintFailures : Failed("header", f, "ret", Classify(f), TRUE)

\* content_len = self._unpack_varint(sock)
JsonRecvContentLen ==
  /\ cur = "JSON" /\ cpc = "len"
  /\ \/ /\ ~PeerGone
        /\ \E n \in JsonContentLens :
             /\ content_len' = n
             /\ Unpacked(n, event, TRUE, "payload")
     \/ \E n \in VarintCut(JsonContentLens) :
          /\ content_len' = n
          /\ Unpacked(n, <<"header", "aborted">>, TRUE, "payload")
     \/ /\ ~PeerGone
        /\ \E f \in VarintFailures :
             /\ UNCHANGED content_len
             /\ Failed("header", f, "ret", Classify(f), TRUE)

\* The documents _recv_exact can hand back for content_len bytes: none of
\* them for no bytes, which json.loads rejects.
ReadDocs(n) ==
  IF n <= 0 THEN { JsonDoc("bad_json", NoneV, NoneV, NoneV, NoneV, NoneV) }
  ELSE IF PeerGone THEN {}
  ELSE { d \in JsonDocs : d.len = n }

\* payload_raw = self._recv_exact(sock, content_len); finally close;
\* self.slp_protocol = JSON; parse.
JsonRecvPayload ==
  /\ cur = "JSON" /\ cpc = "payload"
  /\ UNCHANGED content_len
  /\ \/ \E payload_raw \in ReadDocs(content_len) :
          LET o == ParseJsonPayload([self EXCEPT !.slp_protocol = "JSON"],
                                    Wrote(writer, {"slp_protocol"}, "JSON"),
                                    payload_raw)
          IN Parsed(payload_raw, o)
     \/ \E f \in RecvExactFailures(content_len) :
          /\ PeerGone => f = "aborted"
          /\ Failed("payload", f, "ret", Classify(f), TRUE)

----------------------------------------------------------------------------
(* bedrock_raknet_query: recvfrom and the unpacking stand in one try whose *)
(* finally closes sock; struct.error and UnicodeDecodeError have no        *)
(* handler.                                                                *)

\* 0x1c is 28; the timestamp and the GUID take 8 bytes each, the magic 16,
\* the length 2.
BedrockRecv ==
  /\ cur = "BEDROCK_RAKNET" /\ cpc = "recv"
  /\ UNCHANGED content_len
  /\ \/ \E d \in BedrockDatagrams :
          IF d.packet_id # 28 THEN Exit("ret", "UNKNOWN", TRUE, self, writer)
          ELSE IF d.body < 16 THEN Exit("raise", "struct.error", TRUE, self, writer)
          ELSE IF ~d.magic_ok THEN Exit("ret", "UNKNOWN", TRUE, self, writer)
          ELSE IF d.body < 34 THEN Exit("raise", "struct.error", TRUE, self, writer)
          ELSE IF Undecodable(d.id_string)
               THEN Exit("raise", "UnicodeDecodeError", TRUE, self, writer)
          ELSE LET o == ParseBedrockPayload(
                          [self EXCEPT !.slp_protocol = "BEDROCK_RAKNET"],
                          Wrote(writer, {"slp_protocol"}, "BEDROCK_RAKNET"),
                          d.id_string)
               IN Parsed(d.id_string, o)
     \/ \E f \in SockFailures : Failed("header", f, "ret", Classify(f), TRUE)

----------------------------------------------------------------------------
(* MineStat.__init__ *)

codec == <<cur, cpc, ret, content_len, attempts, rets, socks, writer, exc,
           payload, event, conn_ports, varints>>

\* Every protocol on its own default port.
DefaultPort_AlwaysTcp(p) == DEFAULT_TCP_PORT

\* if query_protocol is SlpProtocols.BEDROCK_RAKNET: DEFAULT_BEDROCK_PORT
\* else: DEFAULT_TCP_PORT
DefaultPort(p) ==
  IF p = "BEDROCK_RAKNET" THEN DEFAULT_BEDROCK_PORT ELSE DEFAULT_TCP_PORT

\* The port and the empty members; result = ConnStatus.UNKNOWN.
InitRecord ==
  /\ pc = "init"
  /\ autoport' = (port_arg = 0)
  /\ self' = [self EXCEPT !.port =
                IF port_arg = 0 THEN DefaultPort(query_protocol) ELSE port_arg]
  /\ result' = "UNKNOWN"
  /\ pc' = "dispatch"
  /\ UNCHANGED <<io, codec>>

\* The chain with the BETA and LEGACY branches exchanged.
SingleCodec_Swapped(p) ==
  CASE p = "BETA" -> "LEGACY"
    [] p = "LEGACY" -> "BETA"
    [] p = "EXTENDED_LEGACY" -> "EXTENDED_LEGACY"
    [] p = "JSON" -> "JSON"
    [] p = "BEDROCK_RAKNET" -> "BEDROCK_RAKNET"

\* The if/elif chain that picks the codec of a single protocol.
SingleCodec(p) ==
  CASE p = "BETA" -> "BETA"
    [] p = "LEGACY" -> "LEGACY"
    [] p = "EXTENDED_LEGACY" -> "EXTENDED_LEGACY"
    [] p = "JSON" -> "JSON"
    [] p = "BEDROCK_RAKNET" -> "BEDROCK_RAKNET"

SingleCall ==
  /\ pc = "dispatch" /\ query_protocol # "ALL"
  /\ Call(SingleCodec(query_protocol))
  /\ pc' = "single"
  /\ UNCHANGED <<io, autoport, result, self>>

\* self.connection_status = result; return
SingleReturn ==
  /\ pc = "single" /\ cpc = "returned"
  /\ result' = ret
  /\ self' = [self EXCEPT !.connection_status = ret]
  /\ pc' = "done"
  /\ Leave
  /\ UNCHANGED <<io, autoport, ret, content_len, attempts, rets, socks, writer, exc>>

\* if autoport: self.port = DEFAULT_BEDROCK_PORT; self.bedrock_raknet_query()
BedrockCall ==
  /\ pc = "dispatch" /\ query_protocol = "ALL"
  /\ self' = [self EXCEPT !.port = IF autoport THEN DEFAULT_BEDROCK_PORT ELSE @]
  /\ Call("BEDROCK_RAKNET")
  /\ pc' = "bedrock"
  /\ UNCHANGED <<io, autoport, result>>

\* A Bedrock CONNFAIL treated like a TCP one: the query ends there.
AfterBedrock_ConnfailEnds(r) ==
  IF r \in {"SUCCESS", "CONNFAIL"} THEN "done" ELSE "call_legacy"

\* Where __init__ goes once bedrock_raknet_query has returned r.
AfterBedrock(r) == IF r = "SUCCESS" THEN "done" ELSE "call_legacy"

\* self.connection_status = result; return on SUCCESS; else the TCP port.
BedrockReturn ==
  /\ pc = "bedrock" /\ cpc = "returned"
  /\ result' = ret
  /\ pc' = AfterBedrock(ret)
  /\ self' = [self EXCEPT !.connection_status = ret,
                          !.port = IF AfterBedrock(ret) # "done" /\ autoport
                                   THEN DEFAULT_TCP_PORT ELSE @]
  /\ Leave
  /\ UNCHANGED <<io, autoport, ret, content_len, attempts, rets, socks, writer, exc>>

\* result = self.legacy_query()
LegacyCall ==
  /\ pc = "call_legacy"
  /\ Call("LEGACY")
  /\ pc' = "legacy"
  /\ UNCHANGED <<io, autoport, result, self>>

\* A TCP codec's value is stored in result.
TakeResult(at, next) ==
  /\ pc = at /\ cpc = "returned"
  /\ result' = ret
  /\ pc' = next
  /\ Leave
  /\ UNCHANGED <<io, autoport, self, ret, content_len, attempts, rets, socks, writer, exc>>

LegacyReturn == TakeResult("legacy", "call_beta")

\* The Beta guard written like the two guards after it.
BetaWanted_NotConnfail(r) == r # "CONNFAIL"

\* if result not in [ConnStatus.CONNFAIL, ConnStatus.SUCCESS]
BetaWanted(r) == r \notin {"CONNFAIL", "SUCCESS"}

\* if result is not ConnStatus.CONNFAIL (before extended_legacy_query)
ExtWanted(r) == r # "CONNFAIL"

\* if result is not ConnStatus.CONNFAIL (before json_query)
JsonWanted(r) == r # "CONNFAIL"

\* A guarded call: the codec is called, or the statement is passed by.
CallIf(at, wanted, c, in, skip) ==
  /\ pc = at
  /\ IF wanted
     THEN Call(c) /\ pc' = in
     ELSE pc' = skip /\ UNCHANGED codec
  /\ UNCHANGED <<io, autoport, result, self>>

BetaCall == CallIf("call_beta", BetaWanted(result), "BETA", "beta", "call_ext")

BetaReturn == TakeResult("beta", "call_ext")

ExtCall ==
  CallIf("call_ext", ExtWanted(result), "EXTENDED_LEGACY", "ext", "call_json")

ExtReturn == TakeResult("ext", "call_json")

JsonCall == CallIf("call_json", JsonWanted(result), "JSON", "json", "finish")

\* self.json_query(): the value returned is dropped.
JsonReturn ==
  /\ pc = "json" /\ cpc = "returned"
  /\ pc' = "finish"
  /\ Leave
  /\ UNCHANGED <<io, autoport, result, self, ret, content_len, attempts, rets,
                 socks, writer, exc>>

\* self.connection_status = result
Finish ==
  /\ pc = "finish"
  /\ self' = [self EXCEPT !.connection_status = result]
  /\ pc' = "done"
  /\ UNCHANGED <<io, autoport, result, codec>>

----------------------------------------------------------------------------

Next ==
  \/ InitRecord
  \/ SingleCall \/ SingleReturn
  \/ BedrockCall \/ BedrockReturn
  \/ LegacyCall \/ LegacyReturn
  \/ BetaCall \/ BetaReturn
  \/ ExtCall \/ ExtReturn
  \/ JsonCall \/ JsonReturn
  \/ Finish
  \/ Connect \/ Send
  \/ LegacyRecvHeader \/ LegacyRecvPayload
  \/ BetaRecvHeader \/ BetaRecvPayload
  \/ ExtRecvPacketId \/ ExtRecvLen \/ ExtRecvPayload
  \/ JsonRecvPacketLen \/ JsonRecvPacketId \/ JsonRecvContentLen \/ JsonRecvPayload
  \/ BedrockRecv

Spec == Init /\ [][Next]_vars

----------------------------------------------------------------------------
(* The parsers and helpers applied on their own: one call of a method on a *)
(* fresh object, over every argument up to a size.                         *)

\* Longest legacy payload, in characters.
MaxLegacyLen == 7

\* Longest beta payload, in characters.
MaxBetaLen == 5

\* Longest MOTD handed to motd_strip_formatting, in characters.
MaxMotdLen == 4

LegacyTexts == Texts({"NUL", "1", "x"}, MaxLegacyLen)

BetaTexts == Texts({"SECT", "0", "1", "x"}, MaxBetaLen)

MotdTexts == Texts({"SECT", "a", "NL"}, MaxMotdLen)

\* Longest text of one node of a chat component, in characters.
MaxNodeLen == 2

NodeTexts == Texts({"SECT", "a"}, MaxNodeLen)

\* The entries of an "extra" list: strings and components without children.
MotdLeaves ==
  { DescStr(s) : s \in NodeTexts } \cup { DescDict(TRUE, s, <<>>) : s \in NodeTexts }

\* Chat components: a text alone, and a text (or none) with one or two
\* entries in "extra".
MotdTrees ==
  { DescDict(TRUE, s, <<>>) : s \in NodeTexts }
  \cup { DescDict(TRUE, s, <<l>>) : s \in NodeTexts, l \in MotdLeaves }
  \cup { DescDict(FALSE, <<>>, <<l>>) : l \in MotdLeaves }
  \cup { DescDict(TRUE, s, <<l, m>>) : s \in NodeTexts, l \in MotdLeaves, m \in MotdLeaves }

\* Largest size asked of _recv_exact.
MaxSize == 3

\* Most reads a server answers during one _recv_exact.
MaxReads == 3

\* Bytes ready at one sock.recv: fewer than asked, as many, more.
ChunkSizes == {1, 2, 5}

ReadScripts ==
  Texts({ Ready(n) : n \in ChunkSizes } \cup {PeerClosed, TimedOut}, MaxReads)

\* Most bytes a server hands to one _unpack_varint.
MaxStreamLen == 6

\* Bytes with and without 0x80, with low bits below and above 2^4.
StreamBytes == {0, 15, 128, 255}

ByteStreams == Texts(StreamBytes, MaxStreamLen)

\* Values packed: the ends of each length of varint below 2^31.
VarintValues == {0, 1, 127, 128, 300, 16383, 16384, 2097151, 2097152,
                 268435455, 268435456, 2147483647}

\* Bytes that follow the varint in the stream.
VarintTrailers == {<<>>, <<0>>, <<129, 1>>}

Methods == {"__parse_legacy_payload", "beta_query", "motd_strip_formatting",
            "_unpack_varint", "motd_strip_formatting(dict)",
            "_unpack_varint(stream)", "_recv_exact"}

FnInit ==
  /\ query_protocol = "ALL"
  /\ port_arg = 0
  /\ Fresh
  /\ fn \in Methods
  /\ CASE fn = "__parse_legacy_payload" -> arg \in LegacyTexts
       [] fn = "beta_query" -> arg \in BetaTexts
       [] fn = "motd_strip_formatting" -> arg \in MotdTexts
       [] fn = "motd_strip_formatting(dict)" -> arg \in MotdTrees
       [] fn = "_unpack_varint(stream)" -> arg \in ByteStreams
       [] fn = "_recv_exact" -> arg \in [reads : ReadScripts, size : 0..MaxSize]
       [] fn = "_unpack_varint" ->
            arg \in [v : VarintValues, trailer : VarintTrailers]
  /\ out = NoneV

\* What a call of a method on its own leaves alone.
FnFrame == <<query_protocol, port_arg, autoport, result, pc, cur, cpc, ret,
             content_len, attempts, rets, socks, exc, payload, event,
             conn_ports, varints, fn, arg>>

\* The call of a parser ended with o.
FnParsed(o) ==
  /\ self' = o.s
  /\ writer' = o.w
  /\ out' = Some(<<o.kind, o.val>>)
  /\ UNCHANGED FnFrame

\* self.__parse_legacy_payload(arg)
ApplyParseLegacy ==
  /\ fn = "__parse_legacy_payload" /\ out = NoneV
  /\ FnParsed(ParseLegacyPayload(self, writer, "LEGACY", arg))

\* The parsing half of beta_query on payload arg.
ApplyParseBeta ==
  /\ fn = "beta_query" /\ out = NoneV
  /\ FnParsed(ParseBetaPayload(self, writer, arg))

\* MineStat.motd_strip_formatting(arg)
ApplyStrip ==
  /\ fn = "motd_strip_formatting" /\ out = NoneV
  /\ out' = Some(motd_strip_formatting(DescStr(arg)))
  /\ UNCHANGED <<FnFrame, self, writer>>

\* self._unpack_varint(sock), sock holding _pack_varint(arg.v) and a trailer.
ApplyVarint ==
  /\ fn = "_unpack_varint" /\ out = NoneV
  /\ out' = Some(unpack_varint(pack_varint(arg.v) \o arg.trailer))
  /\ UNCHANGED <<FnFrame, self, writer>>

\* MineStat.motd_strip_formatting(arg) for a dict, as __parse_json_payload
\* calls it on a chat-component description.
ApplyStripTree ==
  /\ fn = "motd_strip_formatting(dict)" /\ out = NoneV
  /\ out' = Some(motd_strip_formatting(arg))
  /\ UNCHANGED <<FnFrame, self, writer>>

\* self._unpack_varint(sock), sock holding the bytes arg and then closed.
ApplyUnpack ==
  /\ fn = "_unpack_varint(stream)" /\ out = NoneV
  /\ out' = Some(unpack_varint(arg))
  /\ UNCHANGED <<FnFrame, self, writer>>

\* MineStat._recv_exact(sock, arg.size), sock answering as arg.reads says.
ApplyRecvExact ==
  /\ fn = "_recv_exact" /\ out = NoneV
  /\ out' = Some(recv_exact(arg.reads, arg.size))
  /\ UNCHANGED <<FnFrame, self, writer>>

FnNext ==
  \/ ApplyParseLegacy \/ ApplyParseBeta \/ ApplyStrip \/ ApplyVarint
  \/ ApplyStripTree \/ ApplyUnpack \/ ApplyRecvExact

FnSpec == FnInit /\ [][FnNext]_vars

----------------------------------------------------------------------------
(* Vocabulary of the properties *)

AllMode == query_protocol = "ALL"

Done == pc = "done"

TcpCodecs == {"LEGACY", "BETA", "EXTENDED_LEGACY", "JSON"}

Attempted(c) == \E i \in 1..Len(attempts) : attempts[i] = c

\* The value the (first) call of codec c ended with.
RetOf(c) == rets[CHOOSE i \in 1..Len(attempts) : attempts[i] = c]

ReturnedWith(c, S) == Attempted(c) /\ RetOf(c) \in S

\* Place of a codec in the order of ALL mode.
Rank(c) ==
  CASE c = "BEDROCK_RAKNET" -> 1 [] c = "LEGACY" -> 2 [] c = "BETA" -> 3
    [] c = "EXTENDED_LEGACY" -> 4 [] c = "JSON" -> 5

----------------------------------------------------------------------------
(* Properties *)

\* C1: whenever MineStat(...) returns, online is True iff connection_status
\* is SUCCESS.
C1_OnlineIffSuccess ==
  Done => (self.online <=> self.connection_status = "SUCCESS")

\* C2: no exception leaves MineStat(...), whatever the server does; every
\* query that ends has its failure in connection_status and online False.
C2_NoExceptionEscapes ==
  /\ exc = "None"
  /\ pc # "raised"
  /\ Done /\ self.connection_status # "SUCCESS" => ~self.online

\* C3: in ALL mode a CONNFAIL from any TCP codec is the last attempt of the
\* query and is the final connection_status.
C3_ConnfailAbortsChain ==
  AllMode =>
    \A i \in 1..Len(attempts) :
      attempts[i] \in TcpCodecs /\ rets[i] = "CONNFAIL" =>
        /\ i = Len(attempts)
        /\ Done => self.connection_status = "CONNFAIL"

\* C4: in ALL mode the stored connection_status is the value returned by
\* the codec attempted last.
C4_StatusOfLastAttempt ==
  AllMode /\ Done => self.connection_status = rets[Len(rets)]

\* C5: in ALL mode nothing is attempted after a codec returned SUCCESS.
C5_StopsAtFirstSuccess ==
  AllMode => \A i \in 1..Len(attempts) : rets[i] = "SUCCESS" => i = Len(attempts)

\* C6: with a single protocol selected, the only codec ever called is the
\* selected one, it is called once, and the query returns with
\* connection_status equal to the value that call returned.
C6_SingleProtocolOnly ==
  ~AllMode =>
    /\ Len(attempts) <= 1
    /\ \A i \in 1..Len(attempts) : attempts[i] = query_protocol
    /\ Done => /\ attempts = <<query_protocol>>
               /\ rets[1] \in ConnStatus
               /\ self.connection_status = rets[1]

\* C6 happens: a single-protocol query returned a failure and stopped there.
C6_Witness ==
  /\ Done /\ query_protocol = "JSON"
  /\ attempts = <<"JSON">> /\ rets = <<"TIMEOUT">>
  /\ self.connection_status = "TIMEOUT"

\* C7: in ALL mode Bedrock is the first attempt; its SUCCESS ends the query
\* with connection_status SUCCESS and no TCP codec attempted; any other
\* returned value (CONNFAIL included) is followed by the Legacy attempt.
C7_BedrockFirst ==
  AllMode =>
    /\ Len(attempts) >= 1 => attempts[1] = "BEDROCK_RAKNET"
    /\ Len(attempts) >= 1 /\ rets[1] = "SUCCESS" =>
         /\ Len(attempts) = 1
         /\ pc \in {"bedrock", "done"}
         /\ Done => self.connection_status = "SUCCESS"
    /\ Len(attempts) >= 1 /\ rets[1] \in {"TIMEOUT", "UNKNOWN", "CONNFAIL"} =>
         \/ pc = "bedrock"
         \/ pc = "call_legacy" /\ ENABLED LegacyCall
         \/ Len(attempts) >= 2 /\ attempts[2] = "LEGACY"

\* C7 happens: Bedrock returned CONNFAIL and Legacy was attempted after it.
C7_Witness ==
  /\ AllMode /\ Done
  /\ Len(attempts) >= 2
  /\ attempts[1] = "BEDROCK_RAKNET" /\ rets[1] = "CONNFAIL"
  /\ attempts[2] = "LEGACY"

C9_SocketsClosed ==
  /\ \A i \in 1..Len(attempts) : rets[i] \in ConnStatus => socks[i] = "closed"
  /\ Cardinality({i \in 1..Len(socks) : socks[i] = "open"}) <= 1

\* C10: when an ALL-mode query returns with online True, every populated
\* data member was assigned by the codec slp_protocol names; and a codec
\* attempted after a successful one assigns neither slp_protocol nor a data
\* member.
C10_OneCodecFillsRecord ==
  AllMode /\ Done /\ self.online =>
    /\ \A f \in {"version", "motd", "stripped_motd", "current_players", "max_players"} :
         self[f] # NoneV => writer[f] = self.slp_protocol
    /\ \A i \in 1..Len(attempts) : \A j \in 1..Len(attempts) :
         i < j /\ rets[i] = "SUCCESS" =>
           /\ writer["slp_protocol"] # attempts[j]
           /\ \A f \in DataFields : writer[f] # attempts[j]

\* C11: whenever MineStat(...) returns with online False, version, motd,
\* stripped_motd, current_players, max_players, favicon_b64, favicon and
\* gamemode are all None.
C11_OfflineRecordEmpty ==
  (Done /\ ~self.online) => \A f \in DataFields : self[f] = NoneV

\* A query that returns offline after a codec got as far as parsing a payload.
C11_Witness ==
  /\ Done /\ ~self.online
  /\ self.slp_protocol # "None"
  /\ self.latency # NoneV

\* C12: with port = 0 the Bedrock attempt connects to port 19132 and every
\* Java-family attempt to port 25565, in ALL mode and in single-protocol
\* mode; with port != 0 every attempt connects to the caller's port and the
\* record's port stays the caller's port.
C12_PortOfAttempt ==
  /\ \A i \in 1..Len(conn_ports) :
       conn_ports[i] =
         IF port_arg # 0 THEN port_arg
         ELSE IF attempts[i] = "BEDROCK_RAKNET" THEN DEFAULT_BEDROCK_PORT
         ELSE DEFAULT_TCP_PORT
  /\ (port_arg # 0 /\ pc # "init") => self.port = port_arg

\* An ALL-mode query on the automatic port that went through Bedrock and at
\* least two Java-family connects.
C12_Witness ==
  /\ AllMode /\ Done /\ port_arg = 0
  /\ Len(conn_ports) >= 3
  /\ conn_ports[1] = DEFAULT_BEDROCK_PORT
  /\ conn_ports[3] = DEFAULT_TCP_PORT

\* The codec whose returned value became connection_status: the only one
\* called in single-protocol mode, the last one called other than JSON in
\* ALL mode.
Decider ==
  IF AllMode
  THEN attempts[CHOOSE i \in 1..Len(attempts) :
                  /\ attempts[i] # "JSON"
                  /\ \A j \in (i + 1)..Len(attempts) : attempts[j] = "JSON"]
  ELSE attempts[1]

\* C13: when the query returns, latency is the connect time measured in the
\* codec attempt whose result became connection_status; no other attempt's
\* connect determines it.
C13_LatencyOfDecidingAttempt ==
  (Done /\ self.latency # NoneV) => writer["latency"] = Decider

\* The running codec has ended, by a return or by an exception.
CodecEnded == cur # "None" /\ cpc \in {"returned", "raised"}

\* C14: every codec answers a timeout at connect or at any read with
\* TIMEOUT, a refused connect with CONNFAIL, and the peer closing before the
\* expected bytes (at the header or at the payload read) or a malformed
\* length with UNKNOWN; so the same failure at the same stage gives the same
\* ConnStatus in legacy_query, beta_query, extended_legacy_query and
\* json_query.
C14_SameClassification ==
  CodecEnded =>
    /\ (event # NoEvent /\ event[2] = "timeout") =>
         (cpc = "returned" /\ ret = "TIMEOUT")
    /\ event = <<"connect", "oserror">> =>
         (cpc = "returned" /\ ret = "CONNFAIL")
    /\ (event # NoEvent /\ event[2] = "aborted") =>
         (cpc = "returned" /\ ret = "UNKNOWN")
    /\ (cur \in TcpCodecs /\ event = NoEvent /\ payload # NoneV /\ content_len <= 0) =>
         (cpc = "returned" /\ ret = "UNKNOWN")

\* C17: a Bedrock pong whose ';'-separated string has fewer than the 12
\* schema fields makes bedrock_raknet_query return UNKNOWN with online
\* False; it does not raise and does not leave online True.
C17_ShortBedrockPongUnknown ==
  (/\ cur = "BEDROCK_RAKNET" /\ CodecEnded
   /\ payload # NoneV /\ Len(Split(payload[1], ";")) < 12)
  => (cpc = "returned" /\ ret = "UNKNOWN" /\ ~self.online)

\* The keys __parse_json_payload requires are all in the document.
HasRequiredKeys(doc) ==
  /\ doc.kind = "obj"
  /\ doc.version_name # NoneV /\ doc.description # NoneV
  /\ doc.players_max # NoneV /\ doc.players_online # NoneV

\* C18: json_query returns UNKNOWN, without setting online, for every
\* invalid response: a packet length below 3, a packet id other than 0,
\* content that is not valid UTF-8 JSON, JSON that is not an object or lacks
\* version.name, description, players.max or players.online; it returns
\* SUCCESS only when all required keys are present.
C18_InvalidJsonUnknown ==
  (cur = "JSON" /\ CodecEnded) =>
    /\ (\/ Len(varints) >= 1 /\ varints[1] < 3
        \/ Len(varints) >= 2 /\ varints[2] # 0
        \/ payload # NoneV /\ ~HasRequiredKeys(payload[1]))
       => (cpc = "returned" /\ ret = "UNKNOWN" /\ writer["online"] # "JSON")
    /\ (cpc = "returned" /\ ret = "SUCCESS")
       => (payload # NoneV /\ HasRequiredKeys(payload[1]))

\* A method has been applied on its own and has ended.
Applied(m) == fn = m /\ out # NoneV

\* C15: __parse_legacy_payload returns SUCCESS only when the NUL-split
\* payload has exactly 6 fields, and then version is field 2, motd field 3,
\* current_players int(field 4) and max_players int(field 5); for any other
\* field count it returns UNKNOWN and assigns none of online, version, motd,
\* current_players, max_players.
C15_LegacyExactlySix ==
  Applied("__parse_legacy_payload") =>
    LET payload_list == Split(arg, "NUL") IN
    /\ out[1] = <<"ret", "SUCCESS">> =>
         /\ Len(payload_list) = 6
         /\ self.version = Some(payload_list[3])
         /\ self.motd = Some(payload_list[4])
         /\ self.current_players = Some(IntOf(payload_list[5]))
         /\ self.max_players = Some(IntOf(payload_list[6]))
    /\ Len(payload_list) # 6 =>
         /\ out[1] = <<"ret", "UNKNOWN">>
         /\ ~self.online
         /\ \A f \in {"online", "version", "motd", "current_players", "max_players"} :
              writer[f] = "None" /\ (f # "online" => self[f] = NoneV)

\* Six fields with numeric counts were parsed.
C15_Witness ==
  /\ Applied("__parse_legacy_payload")
  /\ out[1] = <<"ret", "SUCCESS">>
  /\ self.current_players = Some(1) /\ self.max_players = Some(1)
  /\ self.online

\* C19: for v below 2^31, _unpack_varint reading the bytes _pack_varint(v)
\* produced returns v and consumes exactly those bytes.
C19_VarintRoundTrip ==
  Applied("_unpack_varint") =>
    /\ out[1].data = WideOf(arg.v)
    /\ out[1].rest = arg.trailer

\* 2^31 - 1 went through five bytes, with bytes after it in the stream.
C19_Witness ==
  /\ Applied("_unpack_varint")
  /\ arg.v = 2147483647 /\ arg.trailer # <<>>
  /\ out[1].data = WideOf(2147483647)

\* C16: beta_query, on a payload split on the section sign into k fields,
\* returns UNKNOWN if k < 3; if k >= 3 it sets max_players to the last
\* field, current_players to the one before it and motd to the first k-2
\* fields rejoined with the section sign, so that motd, current_players and
\* max_players joined with section signs give back the payload.
C16_BetaFields ==
  Applied("beta_query") =>
    LET payload_list == Split(arg, "SECT")
        k == Len(payload_list)
    IN IF k < 3 THEN out[1] = <<"ret", "UNKNOWN">>
       ELSE IF self.max_players = NoneV \/ self.current_players = NoneV
               \/ self.motd = NoneV
            THEN FALSE
       ELSE /\ StrOf(self.max_players[1]) = payload_list[k]
            /\ StrOf(self.current_players[1]) = payload_list[k - 1]
            /\ self.motd[1] = Join(SubSeq(payload_list, 1, k - 2), "SECT")
            /\ self.motd[1] \o <<"SECT">> \o StrOf(self.current_players[1])
                 \o <<"SECT">> \o StrOf(self.max_players[1]) = arg

\* Every section sign removed together with the character after it, whatever
\* that character is; a section sign that ends the text stays.
RECURSIVE StripAny(_)
StripAny(s) ==
  IF Len(s) = 0 THEN <<>>
  ELSE IF s[1] = "SECT" /\ Len(s) >= 2 THEN StripAny(SubSeq(s, 3, Len(s)))
  ELSE <<s[1]>> \o StripAny(Tail(s))

\* C20: motd_strip_formatting on a string removes every section sign
\* together with the one character after it, a newline included, scanning
\* left to right, and leaves every other character in place and in order.
C20_StripRemovesEveryCode ==
  Applied("motd_strip_formatting") => out[1] = StripAny(arg)

\* C25: when a single protocol is selected and MineStat(...) returns, online
\* is True iff connection_status is SUCCESS; in every codec the assignment
\* online = True is followed only by a return of SUCCESS or by an exception.
C25_SingleOnlineIffSuccess ==
  /\ (~AllMode /\ Done) => (self.online <=> self.connection_status = "SUCCESS")
  /\ (CodecEnded /\ cpc = "returned" /\ writer["online"] = cur) => ret = "SUCCESS"

\* A single-protocol Bedrock query that returned online.
C25_Witness ==
  /\ query_protocol = "BEDROCK_RAKNET" /\ Done
  /\ self.online /\ self.connection_status = "SUCCESS"

\* The running legacy or beta codec has ended at its payload read.
EndedAtPayload ==
  /\ cur \in {"LEGACY", "BETA"} /\ CodecEnded
  /\ \/ payload # NoneV
     \/ event # NoEvent /\ event[1] = "payload"

\* C26: in legacy_query and beta_query a header whose length field is zero or
\* negative makes the payload read take no bytes and not fail, and the codec
\* returns UNKNOWN without setting online or any data member, with
\* slp_protocol already set to that codec.
C26_EmptyPayloadUnknown ==
  (EndedAtPayload /\ content_len <= 0) =>
    /\ event = NoEvent
    /\ payload = Some(<<>>)
    /\ cpc = "returned" /\ ret = "UNKNOWN"
    /\ writer["online"] # cur
    /\ \A f \in DataFields : writer[f] # cur
    /\ self.slp_protocol = cur /\ writer["slp_protocol"] = cur

\* beta_query returned after a header with a negative length.
C26_Witness ==
  /\ cur = "BETA" /\ cpc = "returned"
  /\ content_len < 0 /\ payload = Some(<<>>)
  /\ self.slp_protocol = "BETA"

\* C22: on a successful Bedrock parse, version is the game version, a space,
\* motd line 2, a space and the edition in parentheses; motd is motd line 1
\* and gamemode is the ninth field.
C22_BedrockVersionString ==
  (/\ cur = "BEDROCK_RAKNET" /\ cpc = "returned" /\ ret = "SUCCESS"
   /\ payload # NoneV)
  => LET f == Split(payload[1], ";") IN
     /\ self.version =
          Some(f[4] \o <<" ">> \o f[8] \o <<" ", "(">> \o f[1] \o <<")">>)
     /\ self.motd = Some(f[2])
     /\ self.gamemode = Some(f[9])

\* The text a description stands for: a string itself, a component's text
\* followed by what its extra entries stand for, in order.
RECURSIVE Content(_)
RECURSIVE ContentOfAll(_)
ContentOfAll(ex) ==
  IF Len(ex) = 0 THEN <<>> ELSE Content(ex[1]) \o ContentOfAll(Tail(ex))

Content(d) ==
  IF d.t = "str" THEN d.text
  ELSE (IF d.has_text THEN d.text ELSE <<>>) \o ContentOfAll(d.extra)

\* C21: the stripped MOTD of a chat-component description equals the
\* stripped MOTD of the plain-string description with the same content:
\* {text: s}, and any component tree whose text and extra entries
\* concatenate in order to s, strip to what the string s strips to.
C21_SameStrippedMotd ==
  Applied("motd_strip_formatting(dict)") =>
    out[1] = motd_strip_formatting(DescStr(Content(arg)))

\* How many bytes _unpack_varint is to consume of a stream: up to the first
\* byte without 0x80 among the first five, else five, else all there are.
VarintSpan(stream) ==
  LET most == IF Len(stream) < 5 THEN Len(stream) ELSE 5
      ends == { i \in 1..most : stream[i] < 128 }
  IN IF ends = {} THEN most
     ELSE CHOOSE i \in ends : \A j \in ends : i <= j

\* C23: _unpack_varint on any byte source consumes at most 5 bytes, stops
\* right after the first byte whose 0x80 bit is clear or at the first empty
\* read, and returns a value v with 0 <= v < 2^32 (no bit above the low 28
\* but four more).
C23_VarintCeiling ==
  Applied("_unpack_varint(stream)") =>
    LET used == Len(arg) - Len(out[1].rest) IN
    /\ used <= 5
    /\ used = VarintSpan(arg)
    /\ out[1].rest = SubSeq(arg, used + 1, Len(arg))
    /\ out[1].data.lo >= 0 /\ out[1].data.hi >= 0
    /\ out[1].data.hi < 16

\* The bytes one sock.recv of the log handed out.
GotAt(log, i) ==
  IF log[i].read.kind # "data" THEN 0
  ELSE IF log[i].read.n < log[i].asked THEN log[i].read.n ELSE log[i].asked

\* C24: _recv_exact(sock, n), for any sequence of partial reads, either
\* returns exactly the first n bytes of what the peer sent, in order, or
\* raises ConnectionAbortedError at the first zero-length read before n
\* bytes were collected; no read asks for more than the bytes still missing,
\* and a timeout during a read surfaces as socket.timeout.
C24_RecvExact ==
  Applied("_recv_exact") =>
    LET o == out[1]
        log == o.log
        n == arg.size
        last == log[Len(log)]
    IN
    \* the reads are the peer's, in order, each asked for no more than is missing
    /\ \A i \in 1..Len(log) :
         /\ log[i].read = (IF i <= Len(arg.reads) THEN arg.reads[i] ELSE PeerClosed)
         /\ log[i].had = (IF i = 1 THEN 0 ELSE log[i - 1].had + GotAt(log, i - 1))
         /\ log[i].had < n
         /\ log[i].asked <= n - log[i].had
         /\ i < Len(log) => log[i].read.kind = "data"
    /\ \/ /\ o.kind = "ret"
          /\ o.data = [j \in 1..n |-> j]
          /\ Len(log) > 0 => last.read.kind = "data" /\ last.had + GotAt(log, Len(log)) = n
       \/ /\ o.kind = "raise" /\ o.val = "ConnectionAbortedError"
          /\ Len(log) > 0 /\ last.read.kind = "closed"
       \/ /\ o.kind = "raise" /\ o.val = "socket.timeout"
          /\ Len(log) > 0 /\ last.read.kind = "timeout"

\* Three bytes came in two partial reads although more were ready.
C24_Witness ==
  /\ Applied("_recv_exact")
  /\ arg.size = 3 /\ out[1].kind = "ret"
  /\ Len(out[1].log) = 2
  /\ arg.reads[2].n > out[1].log[2].asked

====
